---- MODULE Spec2Model ----
(***************************************************************************)
(* Model of gnss/common/utils/vts/Utils.cpp: the VTS helper functions      *)
(* checkLocation, getMockMeasurementCorrections(_1_1),                     *)
(* mapConstellationType and isAutomotiveDevice.                            *)
(*                                                                         *)
(* The helpers keep no state between calls.  The state of the model is the *)
(* call in progress (its name, its arguments, its result; "none" between   *)
(* calls) plus the list of records the extended mock builder has returned  *)
(* so far.  Every helper is synchronous: a call runs from the idle state   *)
(* and its return leads back to it.  Sequences are indexed from 1, the     *)
(* source's vectors from 0.                                                *)
(*                                                                         *)
(* Representation:                                                         *)
(*  - a double is a record [nan, v]: v is the value (all bounds in the     *)
(*    source are whole numbers), nan marks a NaN, for which every          *)
(*    comparison is false;                                                 *)
(*  - gnssLocationFlags is the set of the flag bits that are set;          *)
(*  - timestamp (int64 milliseconds) is held in units of 1000 ms, so that  *)
(*    1.48e12 ms is 1480000000; the inputs are whole multiples of 1000 ms; *)
(*  - a gtest failure is identified by the source line of the EXPECT_*     *)
(*    that failed, as gtest reports it;                                    *)
(*  - the floating-point literals of the mock records are kept as the      *)
(*    literal text;                                                        *)
(*  - a character is its ASCII code, a C string a sequence of codes        *)
(*    followed by NUL (0).                                                 *)
(***************************************************************************)
EXTENDS Integers, Sequences, FiniteSets, TLC

VARIABLES call, args, ret, returned_1_1

vars == <<call, args, ret, returned_1_1>>

(***************************************************************************)
(* Bounds                                                                  *)
(***************************************************************************)
\* how many fields / flag bits of an input location differ from the nominal one
MaxDeviations == 2
\* how many calls of the extended mock builder are recorded
MaxCalls == 2

(***************************************************************************)
(* doubles                                                                 *)
(***************************************************************************)
D(x) == [nan |-> FALSE, v |-> x]
NaN == [nan |-> TRUE, v |-> 0]

\* the comparisons behind EXPECT_GE / EXPECT_LE / EXPECT_GT and operator>
GE(a, b) == (~a.nan) /\ a.v >= b
LE(a, b) == (~a.nan) /\ a.v <= b
GT(a, b) == (~a.nan) /\ a.v > b

(***************************************************************************)
(* V1_0::GnssLocation                                                      *)
(***************************************************************************)
GnssLocationFlags ==
    {"HAS_LAT_LONG", "HAS_ALTITUDE", "HAS_SPEED", "HAS_BEARING",
     "HAS_HORIZONTAL_ACCURACY", "HAS_VERTICAL_ACCURACY",
     "HAS_SPEED_ACCURACY", "HAS_BEARING_ACCURACY"}

\* location.gnssLocationFlags & GnssLocationFlags::f
Has(location, f) == f \in location.gnssLocationFlags

\* EXPECT_*: a failed expectation is recorded and execution continues
Expect(cond, line) == IF cond THEN <<>> ELSE <<line>>

(***************************************************************************)
(* Utils::checkLocation, block by block in source order.  Each block is    *)
(* the sequence of failures it records.                                    *)
(***************************************************************************)
MandatoryFlagChecks(location, check_speed) ==
    Expect(Has(location, "HAS_LAT_LONG"), 32)
    \o Expect(Has(location, "HAS_ALTITUDE"), 33)
    \o (IF check_speed THEN Expect(Has(location, "HAS_SPEED"), 35) ELSE <<>>)
    \o Expect(Has(location, "HAS_HORIZONTAL_ACCURACY"), 37)

\* the bearing-accuracy requirement hoisted out of the check_speed branch
MoreAccuracyChecksUnnested(location, check_speed, check_more_accuracies) ==
    IF check_more_accuracies
    THEN Expect(Has(location, "HAS_VERTICAL_ACCURACY"), 41)
         \o (IF check_speed
             THEN Expect(Has(location, "HAS_SPEED_ACCURACY"), 43)
             ELSE <<>>)
         \o (IF Has(location, "HAS_BEARING")
             THEN Expect(Has(location, "HAS_BEARING_ACCURACY"), 45)
             ELSE <<>>)
    ELSE <<>>

MoreAccuracyChecks(location, check_speed, check_more_accuracies) ==
    IF check_more_accuracies
    THEN Expect(Has(location, "HAS_VERTICAL_ACCURACY"), 41)
         \o (IF check_speed
             THEN Expect(Has(location, "HAS_SPEED_ACCURACY"), 43)
                  \o (IF Has(location, "HAS_BEARING")
                      THEN Expect(Has(location, "HAS_BEARING_ACCURACY"), 45)
                      ELSE <<>>)
             ELSE <<>>)
    ELSE <<>>

\* the upper latitude bound confused with the longitude one
LatitudeChecksWide(location) ==
    Expect(GE(location.latitudeDegrees, -90), 49)
    \o Expect(LE(location.latitudeDegrees, 180), 50)

LatitudeChecks(location) ==
    Expect(GE(location.latitudeDegrees, -90), 49)
    \o Expect(LE(location.latitudeDegrees, 90), 50)

LongitudeAltitudeChecks(location) ==
    Expect(GE(location.longitudeDegrees, -180), 51)
    \o Expect(LE(location.longitudeDegrees, 180), 52)
    \o Expect(GE(location.altitudeMeters, -1000), 53)
    \o Expect(LE(location.altitudeMeters, 30000), 54)

\* the bearing requirement applied only to speeds above the stationary limit
SpeedChecksFastOnly(location, check_speed) ==
    IF check_speed
    THEN Expect(GE(location.speedMetersPerSec, 0), 56)
         \o Expect(LE(location.speedMetersPerSec, 5), 57)
         \o (IF GT(location.speedMetersPerSec, 5)
             THEN Expect(Has(location, "HAS_BEARING"), 61)
             ELSE <<>>)
    ELSE <<>>

SpeedChecks(location, check_speed) ==
    IF check_speed
    THEN Expect(GE(location.speedMetersPerSec, 0), 56)
         \o Expect(LE(location.speedMetersPerSec, 5), 57)
         \o (IF GT(location.speedMetersPerSec, 0)
             THEN Expect(Has(location, "HAS_BEARING"), 61)
             ELSE <<>>)
    ELSE <<>>

\* the upper horizontal-accuracy bound made strict
HorizontalAccuracyChecksStrict(location) ==
    Expect(GT(location.horizontalAccuracyMeters, 0), 69)
    \o Expect((~location.horizontalAccuracyMeters.nan)
              /\ location.horizontalAccuracyMeters.v < 250, 70)

HorizontalAccuracyChecks(location) ==
    Expect(GT(location.horizontalAccuracyMeters, 0), 69)
    \o Expect(LE(location.horizontalAccuracyMeters, 250), 70)

OptionalFieldChecks(location) ==
    (IF Has(location, "HAS_BEARING")
     THEN Expect(GE(location.bearingDegrees, -180), 77)
          \o Expect(LE(location.bearingDegrees, 360), 78)
     ELSE <<>>)
    \o (IF Has(location, "HAS_VERTICAL_ACCURACY")
        THEN Expect(GT(location.verticalAccuracyMeters, 0), 81)
             \o Expect(LE(location.verticalAccuracyMeters, 500), 82)
        ELSE <<>>)
    \o (IF Has(location, "HAS_SPEED_ACCURACY")
        THEN Expect(GT(location.speedAccuracyMetersPerSecond, 0), 85)
             \o Expect(LE(location.speedAccuracyMetersPerSecond, 50), 86)
        ELSE <<>>)
    \o (IF Has(location, "HAS_BEARING_ACCURACY")
        THEN Expect(GT(location.bearingAccuracyDegrees, 0), 89)
             \o Expect(LE(location.bearingAccuracyDegrees, 360), 90)
        ELSE <<>>)

TimestampCheck(location) ==
    Expect(location.timestamp > 1480000000, 94)

\* every expectation of checkLocation, in the order the function runs them
Expectations(location, check_speed, check_more_accuracies) ==
    MandatoryFlagChecks(location, check_speed)
    \o MoreAccuracyChecks(location, check_speed, check_more_accuracies)
    \o LatitudeChecks(location)
    \o LongitudeAltitudeChecks(location)
    \o SpeedChecks(location, check_speed)
    \o HorizontalAccuracyChecks(location)
    \o OptionalFieldChecks(location)
    \o TimestampCheck(location)

\* ASSERT_* in place of EXPECT_*: the function returns at the first failure
CheckLocationFatal(location, check_speed, check_more_accuracies) ==
    LET all == Expectations(location, check_speed, check_more_accuracies)
    IN  IF all = <<>> THEN <<>> ELSE <<Head(all)>>

\* the failures one call of checkLocation records
CheckLocation(location, check_speed, check_more_accuracies) ==
    Expectations(location, check_speed, check_more_accuracies)

(***************************************************************************)
(* Input locations: a nominal fix and every record within MaxDeviations    *)
(* field changes of it, and the fix with a latitude, an altitude and a     *)
(* timestamp out of range.  Each field can take its boundary values, the   *)
(* values just outside them and NaN; each flag bit can be cleared.         *)
(***************************************************************************)
NominalLocation ==
    [gnssLocationFlags |-> GnssLocationFlags,
     latitudeDegrees |-> D(37),
     longitudeDegrees |-> D(-122),
     altitudeMeters |-> D(30),
     speedMetersPerSec |-> D(0),
     bearingDegrees |-> D(0),
     horizontalAccuracyMeters |-> D(10),
     verticalAccuracyMeters |-> D(15),
     speedAccuracyMetersPerSecond |-> D(1),
     bearingAccuracyDegrees |-> D(10),
     timestamp |-> 1500000000]

DoubleDeviations ==
    ({"latitudeDegrees"} \X {D(-91), D(-90), D(90), D(91), NaN})
    \cup ({"longitudeDegrees"} \X {D(-181), D(-180), D(180), D(181), NaN})
    \cup ({"altitudeMeters"} \X {D(-1001), D(-1000), D(30000), D(30001), NaN})
    \cup ({"speedMetersPerSec"} \X {D(-1), D(2), D(5), D(6), NaN})
    \cup ({"bearingDegrees"} \X {D(-181), D(-180), D(360), D(361), NaN})
    \cup ({"horizontalAccuracyMeters"} \X {D(0), D(250), D(251), NaN})
    \cup ({"verticalAccuracyMeters"} \X {D(0), D(500), D(501), NaN})
    \cup ({"speedAccuracyMetersPerSecond"} \X {D(0), D(50), D(51), NaN})
    \cup ({"bearingAccuracyDegrees"} \X {D(0), D(360), D(361), NaN})

TimestampDeviations == {0, 1480000000, 1480000001}

Deviate(S) ==
    S
    \cup {[l EXCEPT ![d[1]] = d[2]] : l \in S, d \in DoubleDeviations}
    \cup {[l EXCEPT !.timestamp = t] : l \in S, t \in TimestampDeviations}
    \cup {[l EXCEPT !.gnssLocationFlags = @ \ {f}] :
              l \in S, f \in GnssLocationFlags}

RECURSIVE Deviations(_)
Deviations(k) == IF k = 0 THEN {NominalLocation} ELSE Deviate(Deviations(k - 1))

ThreeFaultLocation ==
    [NominalLocation EXCEPT !.latitudeDegrees = D(91),
                            !.altitudeMeters = D(30001),
                            !.timestamp = 0]

LocationInputs == Deviations(MaxDeviations) \cup {ThreeFaultLocation}

(***************************************************************************)
(* GnssConstellationType, base (V1_0) and extended (V2_0).  A code is the  *)
(* pair of its enumeration and its enumerator; a value of the extended     *)
(* type that is no enumerator is written "#n".                             *)
(***************************************************************************)
V1_0(e) == [ns |-> "V1_0", e |-> e]
V2_0(e) == [ns |-> "V2_0", e |-> e]

V1_0_Enumerators ==
    {"UNKNOWN", "GPS", "SBAS", "GLONASS", "QZSS", "BEIDOU", "GALILEO"}
V2_0_Enumerators == V1_0_Enumerators \cup {"IRNSS"}
UndefinedCodes == {"#8", "#9", "#255"}

V1_0_GnssConstellationType == {V1_0(e) : e \in V1_0_Enumerators}
V2_0_GnssConstellationType ==
    {V2_0(e) : e \in V2_0_Enumerators \cup UndefinedCodes}

\* the QZSS case left out, so that QZSS takes the default branch
MapConstellationTypeNoQzss(constellation) ==
    CASE constellation = V2_0("GPS") -> V1_0("GPS")
      [] constellation = V2_0("SBAS") -> V1_0("SBAS")
      [] constellation = V2_0("GLONASS") -> V1_0("GLONASS")
      [] constellation = V2_0("BEIDOU") -> V1_0("BEIDOU")
      [] constellation = V2_0("GALILEO") -> V1_0("GALILEO")
      [] OTHER -> V1_0("UNKNOWN")

MapConstellationType(constellation) ==
    CASE constellation = V2_0("GPS") -> V1_0("GPS")
      [] constellation = V2_0("SBAS") -> V1_0("SBAS")
      [] constellation = V2_0("GLONASS") -> V1_0("GLONASS")
      [] constellation = V2_0("QZSS") -> V1_0("QZSS")
      [] constellation = V2_0("BEIDOU") -> V1_0("BEIDOU")
      [] constellation = V2_0("GALILEO") -> V1_0("GALILEO")
      [] OTHER -> V1_0("UNKNOWN")

(***************************************************************************)
(* The mock measurement corrections                                        *)
(***************************************************************************)
\* a value-initialized ReflectingPlane (a member the initializer leaves out)
ZeroReflectingPlane ==
    [latitudeDegrees |-> "0.0", longitudeDegrees |-> "0.0",
     altitudeMeters |-> "0.0", azimuthDegrees |-> "0.0"]

GetMockMeasurementCorrections ==
    LET reflectingPlane ==
            [latitudeDegrees |-> "37.4220039",
             longitudeDegrees |-> "-122.0840991",
             altitudeMeters |-> "250.35",
             azimuthDegrees |-> "203.0"]
        singleSatCorrection1 ==
            [singleSatCorrectionFlags |->
                 {"HAS_SAT_IS_LOS_PROBABILITY", "HAS_EXCESS_PATH_LENGTH",
                  "HAS_EXCESS_PATH_LENGTH_UNC", "HAS_REFLECTING_PLANE"},
             constellation |-> V1_0("GPS"),
             svid |-> 12,
             carrierFrequencyHz |-> "1.59975e+09",
             probSatIsLos |-> "0.50001",
             excessPathLengthMeters |-> "137.4802",
             excessPathLengthUncertaintyMeters |-> "25.5",
             reflectingPlane |-> reflectingPlane]
        singleSatCorrection2 ==
            [singleSatCorrectionFlags |->
                 {"HAS_SAT_IS_LOS_PROBABILITY", "HAS_EXCESS_PATH_LENGTH",
                  "HAS_EXCESS_PATH_LENGTH_UNC"},
             constellation |-> V1_0("GPS"),
             svid |-> 9,
             carrierFrequencyHz |-> "1.59975e+09",
             probSatIsLos |-> "0.873",
             excessPathLengthMeters |-> "26.294",
             excessPathLengthUncertaintyMeters |-> "10.0",
             reflectingPlane |-> ZeroReflectingPlane]
        singleSatCorrections == <<singleSatCorrection1, singleSatCorrection2>>
    IN  [latitudeDegrees |-> "37.4219999",
         longitudeDegrees |-> "-122.0840575",
         altitudeMeters |-> "30.60062531",
         horizontalPositionUncertaintyMeters |-> "9.23542",
         verticalPositionUncertaintyMeters |-> "15.02341",
         toaGpsNanosecondsOfWeek |-> "2935633453",
         satCorrections |-> singleSatCorrections]

\* a V1_1::SingleSatCorrection holding a copy of base entry i
WrapSatCorrection(mockCorrections_1_0, i) ==
    [v1_0 |-> mockCorrections_1_0.satCorrections[i],
     constellation |-> V2_0("IRNSS")]

\* only the first entry narrowed
NarrowConstellationsFirstOnly(mockCorrections_1_0) ==
    [mockCorrections_1_0 EXCEPT
        !.satCorrections[1].constellation = V1_0("UNKNOWN")]

\* the second entry overwritten with the narrowed first one
NarrowConstellationsClobber(mockCorrections_1_0) ==
    [mockCorrections_1_0 EXCEPT
        !.satCorrections[1].constellation = V1_0("UNKNOWN"),
        !.satCorrections[2] =
            [mockCorrections_1_0.satCorrections[1] EXCEPT
                !.constellation = V1_0("UNKNOWN")]]

\* the two assignments to satCorrections[i].constellation
NarrowConstellations(mockCorrections_1_0) ==
    [mockCorrections_1_0 EXCEPT
        !.satCorrections[1].constellation = V1_0("UNKNOWN"),
        !.satCorrections[2].constellation = V1_0("UNKNOWN")]

\* the extended entries built after the narrowing instead of before it
GetMockMeasurementCorrections_1_1_WrapLate ==
    LET mockCorrections_1_0 == GetMockMeasurementCorrections
        narrowed == NarrowConstellations(mockCorrections_1_0)
        singleSatCorrection1 == WrapSatCorrection(narrowed, 1)
        singleSatCorrection2 == WrapSatCorrection(narrowed, 2)
        singleSatCorrections == <<singleSatCorrection1, singleSatCorrection2>>
    IN  [v1_0 |-> narrowed,
         hasEnvironmentBearing |-> TRUE,
         environmentBearingDegrees |-> "45.0",
         environmentBearingUncertaintyDegrees |-> "4.0",
         satCorrections |-> singleSatCorrections]

GetMockMeasurementCorrections_1_1 ==
    LET mockCorrections_1_0 == GetMockMeasurementCorrections
        singleSatCorrection1 == WrapSatCorrection(mockCorrections_1_0, 1)
        singleSatCorrection2 == WrapSatCorrection(mockCorrections_1_0, 2)
        narrowed == NarrowConstellations(mockCorrections_1_0)
        singleSatCorrections == <<singleSatCorrection1, singleSatCorrection2>>
    IN  [v1_0 |-> narrowed,
         hasEnvironmentBearing |-> TRUE,
         environmentBearingDegrees |-> "45.0",
         environmentBearingUncertaintyDegrees |-> "4.0",
         satCorrections |-> singleSatCorrections]

(***************************************************************************)
(* Utils::isAutomotiveDevice                                               *)
(***************************************************************************)
PROPERTY_VALUE_MAX == 92

NUL == 0

\* the literal "automotive"
AUTOMOTIVE == <<97, 117, 116, 111, 109, 111, 116, 105, 118, 101>>

\* a string literal in memory: its characters and the terminating NUL
CString(s) == s \o <<NUL>>

\* char buffer[PROPERTY_VALUE_MAX] = {0}
ZeroBuffer == [i \in 1..PROPERTY_VALUE_MAX |-> NUL]

\* property_get(key, buffer, default_value): the value of the property when
\* it is set and not empty, else the default, is copied with its NUL.
\* property is <<>> (absent or unreadable) or <<value>>.
PropertyGet(property, buffer, default_value) ==
    LET value == IF property # <<>> /\ Len(property[1]) > 0
                 THEN property[1]
                 ELSE default_value
    IN  [i \in 1..PROPERTY_VALUE_MAX |->
            IF i <= Len(value) THEN value[i]
            ELSE IF i = Len(value) + 1 THEN NUL
            ELSE buffer[i]]

\* strncmp(s1, s2, n) from character i on: the difference of the first pair
\* of characters that differ, 0 when a NUL or n characters have matched
RECURSIVE StrncmpFrom(_, _, _, _)
StrncmpFrom(s1, s2, n, i) ==
    IF i > n THEN 0
    ELSE IF s1[i] # s2[i] THEN s1[i] - s2[i]
    ELSE IF s1[i] = NUL THEN 0
    ELSE StrncmpFrom(s1, s2, n, i + 1)

Strncmp(s1, s2, n) == StrncmpFrom(s1, s2, n, 1)

\* the comparison bounded by the length of the literal
IsAutomotiveDevicePrefix(property) ==
    LET buffer == PropertyGet(property, ZeroBuffer, <<>>)
    IN  Strncmp(buffer, CString(AUTOMOTIVE), Len(AUTOMOTIVE)) = 0

IsAutomotiveDevice(property) ==
    LET buffer == PropertyGet(property, ZeroBuffer, <<>>)
    IN  Strncmp(buffer, CString(AUTOMOTIVE), PROPERTY_VALUE_MAX) = 0

\* values of ro.hardware.type
Capitalized == [AUTOMOTIVE EXCEPT ![1] = 65]
AutomotiveExtra == AUTOMOTIVE \o <<95, 101, 120, 116, 114, 97>>
Prefixes == {SubSeq(AUTOMOTIVE, 1, n) : n \in 0..(Len(AUTOMOTIVE) - 1)}
LongestValue ==
    [i \in 1..(PROPERTY_VALUE_MAX - 1) |->
        IF i <= Len(AUTOMOTIVE) THEN AUTOMOTIVE[i] ELSE 120]

PropertyValues ==
    {AUTOMOTIVE, Capitalized, AutomotiveExtra, LongestValue,
     [AUTOMOTIVE EXCEPT ![10] = 102], <<120>> \o AUTOMOTIVE}
    \cup Prefixes

PropertyInputs == {<<>>} \cup {<<v>> : v \in PropertyValues}

(***************************************************************************)
(* The calls                                                               *)
(***************************************************************************)
Init ==
    /\ call = "none"
    /\ args = <<>>
    /\ ret = <<>>
    /\ returned_1_1 = <<>>

checkLocation ==
    /\ call = "none"
    /\ \E location \in LocationInputs, check_speed \in BOOLEAN,
          check_more_accuracies \in BOOLEAN :
           /\ call' = "checkLocation"
           /\ args' = [location |-> location, check_speed |-> check_speed,
                       check_more_accuracies |-> check_more_accuracies]
           /\ ret' = CheckLocation(location, check_speed,
                                   check_more_accuracies)
    /\ UNCHANGED returned_1_1

getMockMeasurementCorrections ==
    /\ call = "none"
    /\ call' = "getMockMeasurementCorrections"
    /\ args' = <<>>
    /\ ret' = GetMockMeasurementCorrections
    /\ UNCHANGED returned_1_1

getMockMeasurementCorrections_1_1 ==
    /\ call = "none"
    /\ Len(returned_1_1) < MaxCalls
    /\ call' = "getMockMeasurementCorrections_1_1"
    /\ args' = <<>>
    /\ ret' = GetMockMeasurementCorrections_1_1
    /\ returned_1_1' = Append(returned_1_1, ret')

mapConstellationType ==
    /\ call = "none"
    /\ \E constellation \in V2_0_GnssConstellationType :
           /\ call' = "mapConstellationType"
           /\ args' = [constellation |-> constellation]
           /\ ret' = MapConstellationType(constellation)
    /\ UNCHANGED returned_1_1

isAutomotiveDevice ==
    /\ call = "none"
    /\ \E property \in PropertyInputs :
           /\ call' = "isAutomotiveDevice"
           /\ args' = [property |-> property]
           /\ ret' = IsAutomotiveDevice(property)
    /\ UNCHANGED returned_1_1

\* the helper returns and its caller is done with the result
return ==
    /\ call # "none"
    /\ call' = "none"
    /\ args' = <<>>
    /\ ret' = <<>>
    /\ UNCHANGED returned_1_1

Next ==
    \/ checkLocation
    \/ getMockMeasurementCorrections
    \/ getMockMeasurementCorrections_1_1
    \/ mapConstellationType
    \/ isAutomotiveDevice
    \/ return

Spec == Init /\ [][Next]_vars

(***************************************************************************)
(* Properties of checkLocation                                             *)
(***************************************************************************)
Checked == call = "checkLocation"

InSeq(x, s) == \E i \in 1..Len(s) : s[i] = x

InClosed(x, lo, hi) == (~x.nan) /\ lo <= x.v /\ x.v <= hi
InHalfOpen(x, lo, hi) == (~x.nan) /\ lo < x.v /\ x.v <= hi

\* rules 1-11 of the validator's rule list
Rules1to11(l, cs, cma) ==
    /\ {"HAS_LAT_LONG", "HAS_HORIZONTAL_ACCURACY"} \subseteq l.gnssLocationFlags
    /\ cs => "HAS_SPEED" \in l.gnssLocationFlags
    /\ cma => /\ "HAS_VERTICAL_ACCURACY" \in l.gnssLocationFlags
              /\ cs => "HAS_SPEED_ACCURACY" \in l.gnssLocationFlags
              /\ "HAS_BEARING" \in l.gnssLocationFlags
                     => "HAS_BEARING_ACCURACY" \in l.gnssLocationFlags
    /\ InClosed(l.latitudeDegrees, -90, 90)
    /\ InClosed(l.longitudeDegrees, -180, 180)
    /\ InClosed(l.altitudeMeters, -1000, 30000)
    /\ cs => /\ InClosed(l.speedMetersPerSec, 0, 5)
             /\ l.speedMetersPerSec.v > 0 => "HAS_BEARING" \in l.gnssLocationFlags
    /\ InHalfOpen(l.horizontalAccuracyMeters, 0, 250)
    /\ "HAS_BEARING" \in l.gnssLocationFlags
           => InClosed(l.bearingDegrees, -180, 360)
    /\ "HAS_VERTICAL_ACCURACY" \in l.gnssLocationFlags
           => InHalfOpen(l.verticalAccuracyMeters, 0, 500)
    /\ "HAS_SPEED_ACCURACY" \in l.gnssLocationFlags
           => InHalfOpen(l.speedAccuracyMetersPerSecond, 0, 50)
    /\ "HAS_BEARING_ACCURACY" \in l.gnssLocationFlags
           => InHalfOpen(l.bearingAccuracyDegrees, 0, 360)
    /\ l.timestamp > 1480000000

\* C1 as stated: a record that satisfies rules 1-11 for the given
\* checkSpeed and checkMoreAccuracies is reported without violation,
\* whatever its other flags are (has-altitude set or not).
C1_AsStated ==
    (Checked /\ Rules1to11(args.location, args.check_speed,
                           args.check_more_accuracies))
        => ret = <<>>

\* C1 amended: a record that satisfies rules 1-11 and has the has-altitude
\* flag set is reported without violation, whatever its other flags are.
C1_ValidWithAltitude ==
    (Checked /\ Rules1to11(args.location, args.check_speed,
                           args.check_more_accuracies)
             /\ "HAS_ALTITUDE" \in args.location.gnssLocationFlags)
        => ret = <<>>

C1_Witness ==
    /\ Checked
    /\ Rules1to11(args.location, args.check_speed, args.check_more_accuracies)
    /\ args.check_speed /\ args.check_more_accuracies
    /\ "HAS_ALTITUDE" \in args.location.gnssLocationFlags
    /\ "HAS_BEARING" \notin args.location.gnssLocationFlags
    /\ args.location.horizontalAccuracyMeters = D(250)
    /\ ret = <<>>

\* the expectations of checkLocation, by source line: whether the call
\* reaches the line, and whether the expectation on it holds
ExpectLines ==
    {32, 33, 35, 37, 41, 43, 45, 49, 50, 51, 52, 53, 54, 56, 57, 61,
     69, 70, 77, 78, 81, 82, 85, 86, 89, 90, 94}

Reached(line, l, cs, cma) ==
    CASE line \in {35, 56, 57} -> cs
      [] line = 41 -> cma
      [] line = 43 -> cma /\ cs
      [] line = 45 -> cma /\ cs /\ "HAS_BEARING" \in l.gnssLocationFlags
      [] line = 61 -> cs /\ (~l.speedMetersPerSec.nan)
                         /\ l.speedMetersPerSec.v > 0
      [] line \in {77, 78} -> "HAS_BEARING" \in l.gnssLocationFlags
      [] line \in {81, 82} -> "HAS_VERTICAL_ACCURACY" \in l.gnssLocationFlags
      [] line \in {85, 86} -> "HAS_SPEED_ACCURACY" \in l.gnssLocationFlags
      [] line \in {89, 90} -> "HAS_BEARING_ACCURACY" \in l.gnssLocationFlags
      [] OTHER -> TRUE

AtLeast(x, b) == (~x.nan) /\ x.v >= b
AtMost(x, b) == (~x.nan) /\ x.v <= b
Above(x, b) == (~x.nan) /\ x.v > b

Holds(line, l) ==
    CASE line = 32 -> "HAS_LAT_LONG" \in l.gnssLocationFlags
      [] line = 33 -> "HAS_ALTITUDE" \in l.gnssLocationFlags
      [] line = 35 -> "HAS_SPEED" \in l.gnssLocationFlags
      [] line = 37 -> "HAS_HORIZONTAL_ACCURACY" \in l.gnssLocationFlags
      [] line = 41 -> "HAS_VERTICAL_ACCURACY" \in l.gnssLocationFlags
      [] line = 43 -> "HAS_SPEED_ACCURACY" \in l.gnssLocationFlags
      [] line = 45 -> "HAS_BEARING_ACCURACY" \in l.gnssLocationFlags
      [] line = 49 -> AtLeast(l.latitudeDegrees, -90)
      [] line = 50 -> AtMost(l.latitudeDegrees, 90)
      [] line = 51 -> AtLeast(l.longitudeDegrees, -180)
      [] line = 52 -> AtMost(l.longitudeDegrees, 180)
      [] line = 53 -> AtLeast(l.altitudeMeters, -1000)
      [] line = 54 -> AtMost(l.altitudeMeters, 30000)
      [] line = 56 -> AtLeast(l.speedMetersPerSec, 0)
      [] line = 57 -> AtMost(l.speedMetersPerSec, 5)
      [] line = 61 -> "HAS_BEARING" \in l.gnssLocationFlags
      [] line = 69 -> Above(l.horizontalAccuracyMeters, 0)
      [] line = 70 -> AtMost(l.horizontalAccuracyMeters, 250)
      [] line = 77 -> AtLeast(l.bearingDegrees, -180)
      [] line = 78 -> AtMost(l.bearingDegrees, 360)
      [] line = 81 -> Above(l.verticalAccuracyMeters, 0)
      [] line = 82 -> AtMost(l.verticalAccuracyMeters, 500)
      [] line = 85 -> Above(l.speedAccuracyMetersPerSecond, 0)
      [] line = 86 -> AtMost(l.speedAccuracyMetersPerSecond, 50)
      [] line = 89 -> Above(l.bearingAccuracyDegrees, 0)
      [] line = 90 -> AtMost(l.bearingAccuracyDegrees, 360)
      [] line = 94 -> l.timestamp > 1480000000

\* the individual checks a record fails
FailedChecks(l, cs, cma) ==
    {line \in ExpectLines : Reached(line, l, cs, cma) /\ ~Holds(line, l)}

\* a latitude, an altitude and a timestamp out of range, all else in order
ThreeFaults(l) ==
    /\ ~InClosed(l.latitudeDegrees, -90, 90)
    /\ ~InClosed(l.altitudeMeters, -1000, 30000)
    /\ l.timestamp <= 1480000000
    /\ Rules1to11([l EXCEPT !.latitudeDegrees = D(0),
                            !.altitudeMeters = D(0),
                            !.timestamp = 1500000000], TRUE, TRUE)
    /\ "HAS_ALTITUDE" \in l.gnssLocationFlags
    /\ l.latitudeDegrees.nan = FALSE /\ l.altitudeMeters.nan = FALSE

\* C2: checkLocation never short-circuits: the violations reported are
\* exactly the individual checks the record fails, one violation each, so
\* their number is the number of failed checks; a record with an
\* out-of-range latitude, altitude and timestamp yields exactly three.
C2_NoShortCircuit ==
    Checked =>
        LET failed == FailedChecks(args.location, args.check_speed,
                                   args.check_more_accuracies)
        IN  /\ Len(ret) = Cardinality(failed)
            /\ {ret[i] : i \in 1..Len(ret)} = failed
            /\ ThreeFaults(args.location) => Len(ret) = 3

C2_Witness ==
    /\ Checked
    /\ ThreeFaults(args.location)
    /\ ret = <<50, 54, 94>>

\* C3: for a record that passes every other check, a latitude above 90 or
\* below -90 yields exactly one violation, the latitude-range one.
C3_LatitudeIsolated ==
    (Checked /\ FailedChecks(args.location, args.check_speed,
                             args.check_more_accuracies) \subseteq {49, 50}
             /\ ~args.location.latitudeDegrees.nan)
        => /\ args.location.latitudeDegrees.v > 90 => ret = <<50>>
           /\ args.location.latitudeDegrees.v < -90 => ret = <<49>>

C3_Witness ==
    /\ Checked
    /\ args.location.latitudeDegrees = D(91)
    /\ "HAS_SPEED_ACCURACY" \notin args.location.gnssLocationFlags
    /\ ~args.check_speed
    /\ ret = <<50>>

\* C4: with checkSpeed, a record with 0 < speed <= 5 and no has-bearing flag
\* that passes every other check yields exactly one violation, the missing
\* bearing flag of a moving fix; without checkSpeed the same record yields
\* none.
C4_MovingFixNeedsBearing ==
    (Checked /\ InHalfOpen(args.location.speedMetersPerSec, 0, 5)
             /\ "HAS_BEARING" \notin args.location.gnssLocationFlags
             /\ FailedChecks(args.location, TRUE,
                             args.check_more_accuracies) \subseteq {61})
        => ret = IF args.check_speed THEN <<61>> ELSE <<>>

C4_Witness ==
    /\ Checked
    /\ args.check_speed
    /\ args.location.speedMetersPerSec = D(2)
    /\ "HAS_BEARING" \notin args.location.gnssLocationFlags
    /\ ret = <<61>>

\* C5 as stated: with checkMoreAccuracies and the has-bearing flag set, a
\* missing has-bearing-accuracy flag is a violation for either checkSpeed.
C5_AsStated ==
    (Checked /\ args.check_more_accuracies
             /\ "HAS_BEARING" \in args.location.gnssLocationFlags
             /\ "HAS_BEARING_ACCURACY" \notin args.location.gnssLocationFlags)
        => InSeq(45, ret)

\* C5 amended: a missing has-bearing-accuracy flag is a violation exactly
\* when checkMoreAccuracies and checkSpeed are both true and the
\* has-bearing flag is set.
C5_BearingAccuracyNeedsSpeed ==
    Checked =>
        (InSeq(45, ret) <=>
            /\ args.check_more_accuracies
            /\ args.check_speed
            /\ "HAS_BEARING" \in args.location.gnssLocationFlags
            /\ "HAS_BEARING_ACCURACY" \notin args.location.gnssLocationFlags)

C5_Witness ==
    /\ Checked
    /\ args.check_more_accuracies
    /\ args.check_speed
    /\ "HAS_BEARING" \in args.location.gnssLocationFlags
    /\ "HAS_BEARING_ACCURACY" \notin args.location.gnssLocationFlags
    /\ InSeq(45, ret)

(***************************************************************************)
(* Properties of the mock builders                                         *)
(***************************************************************************)
Built_1_1 == call = "getMockMeasurementCorrections_1_1"

\* C7: in the record getMockMeasurementCorrections_1_1 returns, every
\* satellite correction of the embedded base record has constellation
\* UNKNOWN, every extended entry has constellation IRNSS, the two sequences
\* have the same length and order, and every call returns an equal record.
C7_NarrowedAndDeterministic ==
    Built_1_1 =>
        /\ \A i \in 1..Len(ret.v1_0.satCorrections) :
               ret.v1_0.satCorrections[i].constellation = V1_0("UNKNOWN")
        /\ \A i \in 1..Len(ret.satCorrections) :
               ret.satCorrections[i].constellation = V2_0("IRNSS")
        /\ Len(ret.satCorrections) = Len(ret.v1_0.satCorrections)
        /\ \A i \in 1..Len(ret.satCorrections) :
               ret.satCorrections[i].v1_0.svid
                   = ret.v1_0.satCorrections[i].svid
        /\ \A i \in 1..Len(returned_1_1) : returned_1_1[i] = ret

C7_Witness ==
    /\ Built_1_1
    /\ Len(returned_1_1) = 2
    /\ Len(ret.v1_0.satCorrections) = 2
    /\ ret.satCorrections[2].constellation = V2_0("IRNSS")

\* C8: the narrowing changes nothing but the constellation field: the
\* embedded base record equals the result of getMockMeasurementCorrections
\* in every aggregate field and in every per-satellite field other than
\* constellation, and the extended record has hasEnvironmentBearing = true,
\* bearing 45.0 and uncertainty 4.0.
C8_NarrowingFrame ==
    Built_1_1 =>
        LET base == GetMockMeasurementCorrections
        IN  /\ [ret.v1_0 EXCEPT !.satCorrections = base.satCorrections] = base
            /\ Len(ret.v1_0.satCorrections) = Len(base.satCorrections)
            /\ \A i \in 1..Len(base.satCorrections) :
                   [ret.v1_0.satCorrections[i] EXCEPT
                       !.constellation = base.satCorrections[i].constellation]
                       = base.satCorrections[i]
            /\ ret.hasEnvironmentBearing = TRUE
            /\ ret.environmentBearingDegrees = "45.0"
            /\ ret.environmentBearingUncertaintyDegrees = "4.0"

C8_Witness ==
    /\ Built_1_1
    /\ ret.hasEnvironmentBearing
    /\ ret.v1_0.toaGpsNanosecondsOfWeek = "2935633453"
    /\ ret.v1_0.satCorrections[2].svid = 9
    /\ ret.v1_0.satCorrections[2].reflectingPlane = ZeroReflectingPlane

\* C10: the base correction wrapped in each extended entry is a copy taken
\* before the narrowing: its constellation is GPS and it equals entry i of
\* getMockMeasurementCorrections; it differs from entry i of the embedded
\* base record in the constellation only, and that entry's constellation
\* is mapConstellationType of the extended entry's constellation.
C10_WrappedCopyKeepsGps ==
    Built_1_1 =>
        \A i \in 1..Len(ret.satCorrections) :
            LET wrapped == ret.satCorrections[i].v1_0
                embedded == ret.v1_0.satCorrections[i]
            IN  /\ wrapped.constellation = V1_0("GPS")
                /\ wrapped = GetMockMeasurementCorrections.satCorrections[i]
                /\ wrapped # embedded
                /\ [wrapped EXCEPT !.constellation = embedded.constellation]
                       = embedded
                /\ embedded.constellation
                       = MapConstellationType(ret.satCorrections[i].constellation)

C10_Witness ==
    /\ Built_1_1
    /\ ret.satCorrections[1].v1_0.constellation = V1_0("GPS")
    /\ ret.v1_0.satCorrections[1].constellation = V1_0("UNKNOWN")
    /\ ret.satCorrections[1].v1_0.svid = 12

(***************************************************************************)
(* Properties of mapConstellationType                                      *)
(***************************************************************************)
Mapped == call = "mapConstellationType"

SameNamed == {"GPS", "SBAS", "GLONASS", "QZSS", "BEIDOU", "GALILEO"}

\* C6: mapConstellationType is total on the extended domain: GPS, SBAS,
\* GLONASS, QZSS, BEIDOU and GALILEO map to the base code of the same name,
\* every other input to base UNKNOWN, and the six named codes map to six
\* distinct base codes.
C6_TotalMapping ==
    Mapped =>
        /\ ret \in V1_0_GnssConstellationType
        /\ args.constellation.e \in SameNamed
               => ret = V1_0(args.constellation.e)
        /\ args.constellation.e \notin SameNamed => ret = V1_0("UNKNOWN")
        /\ args.constellation.e \in SameNamed =>
               \A other \in SameNamed \ {args.constellation.e} :
                   MapConstellationType(V2_0(other)) # ret

C6_Witness ==
    /\ Mapped
    /\ args.constellation = V2_0("#255")
    /\ ret = V1_0("UNKNOWN")

(***************************************************************************)
(* Properties of isAutomotiveDevice                                        *)
(***************************************************************************)
Probed == call = "isAutomotiveDevice"

\* C9: isAutomotiveDevice returns true exactly when ro.hardware.type is
\* "automotive": false for the empty string, for "Automotive", for
\* "automotive_extra", for any proper prefix of "automotive", and when the
\* property is absent or cannot be read.
C9_ExactMatch ==
    Probed =>
        /\ ret = (args.property = <<AUTOMOTIVE>>)
        /\ args.property \in {<<>>, << <<>> >>, <<Capitalized>>,
                              <<AutomotiveExtra>>} => ret = FALSE
        /\ (args.property # <<>> /\ args.property[1] \in Prefixes)
               => ret = FALSE

C9_Witness ==
    /\ Probed
    /\ args.property = <<AutomotiveExtra>>
    /\ ret = FALSE

====
